---- MODULE Spec2Model ----
(***************************************************************************)
(* Model of github-reminder's InstallationClient (package reminder):       *)
(* UpdateRepo, UpdateIssue, LabelsInRepo, updateIssue, checkReminders,     *)
(* checkDeadlines, findTimes and parseDate, run against a platform that    *)
(* holds the issues, their comments and their labels.                      *)
(*                                                                         *)
(* Text is a sequence of atoms.  An atom is one character ("r", ":", " ",  *)
(* "\n"), a date text taken as a unit ("D1": the text 2018-03-01 of day 1  *)
(* in layout 2006-01-02), or an author's login taken as a unit.            *)
(*                                                                         *)
(* An instant is a number of hours since 00:00 UTC of day 0.  A time.Time  *)
(* is [t |-> instant, loc |-> offset of its location from UTC in hours].   *)
(* Year(), Month() and Day() of a time.Time agree with those of another    *)
(* exactly when both lie on the same civil day of their own locations, so  *)
(* the triple (year, month, day) is modelled by the civil day number.      *)
(*                                                                         *)
(* One pass (UpdateIssue or UpdateRepo) is one action: the clock is read   *)
(* once per pass.                                                          *)
(*                                                                         *)
(* Spec runs the passes; SpecFind runs findTimes alone on a text.          *)
(***************************************************************************)
EXTENDS Integers, Sequences, FiniteSets

VARIABLES
    tz,         \* offset of the process's local time zone from UTC, in hours
    now,        \* the current instant
    repoLabels, \* the label names of the repository, in the platform's order
    issues,     \* the platform's issues: number -> issue
    pass,       \* the last pass: what it ran on, the client calls it made, its error
    found       \* a text handed to findTimes alone, and the dates it returned

vars == <<tz, now, repoLabels, issues, pass, found>>

----------------------------------------------------------------------------
(* Bounds of the model. *)

StartHour == 24
ClockStep == 12
MaxHour == 48
MaxComments == 3
MaxFailures == 1
MaxPieces == 4
NumIssues == 2

----------------------------------------------------------------------------
(* Text. *)

Reminder == <<"r", "e", "m", "i", "n", "d", "e", "r">>
Deadline == <<"d", "e", "a", "d", "l", "i", "n", "e">>

Bot == "deadline-reminder[bot]"

\* strings.ToLower on one atom; date texts parse case-insensitively, so a date
\* atom stands for its lower-cased text too.
LowerAtom(a) ==
    CASE a = "R" -> "r"
      [] a = "D" -> "d"
      [] OTHER -> a

ToLower(s) == [i \in 1..Len(s) |-> LowerAtom(s[i])]

\* s[i:i+len(w)] == w, i counted from 0 as in Go.
HasAt(s, w, i) ==
    /\ i + Len(w) <= Len(s)
    /\ \A k \in 1..Len(w) : s[i + k] = w[k]

\* strings.Index: the first position (from 0) of w in s, or -1.
Index(s, w) ==
    IF \E i \in 0..Len(s) : HasAt(s, w, i)
    THEN CHOOSE i \in 0..Len(s) :
            HasAt(s, w, i) /\ \A j \in 0..(i - 1) : ~HasAt(s, w, j)
    ELSE -1

HasPrefix(s, p) == HasAt(s, p, 0)

\* s[i:]
From(s, i) == SubSeq(s, i + 1, Len(s))

\* s[:i]
UpTo(s, i) == SubSeq(s, 1, i)

TrimPrefix(s, p) == IF HasPrefix(s, p) THEN From(s, Len(p)) ELSE s

WhiteSpace == {" ", "\t", "\n", "\r"}

\* strings.Trim with a cutset given as a set of atoms.
RECURSIVE TrimLeft(_, _)
TrimLeft(s, cut) ==
    IF s # <<>> /\ Head(s) \in cut THEN TrimLeft(Tail(s), cut) ELSE s

RECURSIVE TrimRight(_, _)
TrimRight(s, cut) ==
    IF s # <<>> /\ s[Len(s)] \in cut THEN TrimRight(UpTo(s, Len(s) - 1), cut) ELSE s

Trim(s, cut) == TrimRight(TrimLeft(s, cut), cut)

TrimSpace(s) == Trim(s, WhiteSpace)

----------------------------------------------------------------------------
(* Time. *)

HoursPerDay == 24

UTC == 0

\* The civil day (year, month, day) of a time.Time in its own location.
CivilDay(x) == (x.t + x.loc) \div HoursPerDay

\* time.Date(y, m, d, 0, 0, 0, 0, time.UTC)
DateUTC(day) == [t |-> day * HoursPerDay, loc |-> UTC]

\* time.Time{}: January 1, year 1, far before every day of the model.
ZeroTime == [t |-> -(10000 * HoursPerDay), loc |-> UTC]

IsZero(x) == x.t = ZeroTime.t

\* time.Time.Equal: the same instant, whatever the location.
Equal(x, y) == x.t = y.t

\* time.Now(): the current instant in the local zone.
Now == [t |-> now, loc |-> tz]

----------------------------------------------------------------------------
(* parseDate and findTimes. *)

dateLayouts ==
    << "2006/01/02", "2006-01-02", "2006 January 2", "2006 Jan 2",
       "January 2 2006", "Jan 2 2006", "January 2, 2006", "Jan 2, 2006" >>

\* The date texts of the model: the layout each is written in and its day.
DateText ==
    [a \in {"D0", "D1", "D2", "S1", "M2"} |->
        CASE a = "D0" -> [layout |-> "2006-01-02", day |-> 0]
          [] a = "D1" -> [layout |-> "2006-01-02", day |-> 1]
          [] a = "D2" -> [layout |-> "2006-01-02", day |-> 2]
          [] a = "S1" -> [layout |-> "2006/01/02", day |-> 1]
          [] a = "M2" -> [layout |-> "January 2, 2006", day |-> 2]]

\* time.Parse(layout, s) succeeds: s is exactly one date text of that layout.
Parses(layout, s) ==
    /\ Len(s) = 1
    /\ s[1] \in DOMAIN DateText
    /\ DateText[s[1]].layout = layout

\* The value time.Parse(layout, s) returns when it succeeds: midnight UTC.
Parsed(layout, s) == DateUTC(DateText[s[1]].day)

parseDate(s0) ==
    LET s == TrimSpace(Trim(TrimSpace(s0), {":"}))
        ok == {i \in 1..Len(dateLayouts) : Parses(dateLayouts[i], s)}
    IN  IF ok = {} THEN ZeroTime
        ELSE Parsed(dateLayouts[CHOOSE i \in ok : \A j \in ok : i <= j], s)

\* The loop leaving the body at the first occurrence that does not parse.
RECURSIVE scanBodyUntilMiss(_, _)
scanBodyUntilMiss(word, body) ==
    LET i == Index(body, word)
    IN  IF i < 0 THEN <<>>
        ELSE LET rest == From(body, i + Len(word))
                 nl == Index(rest, <<"\n">>)
                 lb == IF nl < 0 THEN Len(rest) ELSE nl
                 d == parseDate(UpTo(rest, lb))
             IN  IF IsZero(d) THEN <<>> ELSE <<d>> \o scanBodyUntilMiss(word, rest)

\* The loop of findTimes over one (lower-cased) body.
RECURSIVE scanBody(_, _)
scanBody(word, body) ==
    LET i == Index(body, word)
    IN  IF i < 0 THEN <<>>
        ELSE LET rest == From(body, i + Len(word))
                 nl == Index(rest, <<"\n">>)
                 lb == IF nl < 0 THEN Len(rest) ELSE nl
                 d == parseDate(UpTo(rest, lb))
             IN  (IF IsZero(d) THEN <<>> ELSE <<d>>) \o scanBody(word, rest)

\* findTimes as an earlier revision had it: the dates sorted and made unique
\* (unique.Slice) before they are returned.
RECURSIVE allTimes(_, _)
allTimes(word, bodies) ==
    IF bodies = <<>> THEN <<>>
    ELSE scanBody(word, ToLower(Head(bodies))) \o allTimes(word, Tail(bodies))

RECURSIVE ascending(_)
ascending(instants) ==
    IF instants = {} THEN <<>>
    ELSE LET m == CHOOSE x \in instants : \A y \in instants : x <= y
         IN  <<[t |-> m, loc |-> UTC]>> \o ascending(instants \ {m})

findTimesSortedUnique(word, bodies) ==
    LET ts == allTimes(word, bodies)
    IN  ascending({ts[i].t : i \in 1..Len(ts)})

RECURSIVE findTimes(_, _)
findTimes(word, bodies) ==
    IF bodies = <<>> THEN <<>>
    ELSE scanBody(word, ToLower(Head(bodies))) \o findTimes(word, Tail(bodies))

----------------------------------------------------------------------------
(* Errors: a chain of messages, outermost first; the empty chain is nil. *)

Nil == <<>>

\* The repository of the model.
Owner == "foo"
Repo == "bar"

\* One message of a chain, with the owner, the repository and the issue number
\* it carries ("" and 0: none).
MsgAt(text, owner, repo, number) ==
    [msg |-> text, owner |-> owner, repo |-> repo, number |-> number]

Msg(text, number) == MsgAt(text, "", "", number)

\* The error of the platform's API itself.
ApiError == <<Msg("api", 0)>>

\* errors.Wrap / errors.Wrapf: nil stays nil.
Wrap(err, m) == IF err = Nil THEN Nil ELSE <<m>> \o err

----------------------------------------------------------------------------
(* The client: every call is logged, and fails when the pass's failure     *)
(* oracle names its position in the log or when the platform refuses it.   *)
(* A world is [issues, calls, fail, used, labels]: the platform's issues,  *)
(* the log, the positions that fail, the deadlines handed to               *)
(* checkDeadlines and the labels LabelsInRepo returned.                    *)

Call(w, op, number, arg, accepted) ==
    [w EXCEPT !.calls = Append(@,
        [op |-> op, number |-> number, arg |-> arg,
         ok |-> accepted /\ (Len(w.calls) + 1) \notin w.fail])]

LastOk(w) == w.calls[Len(w.calls)].ok

\* githubClient.createIssueComment: the platform appends the comment, authored
\* by the app's bot and stamped with the current instant, in UTC.
createIssueComment(w, number, text) ==
    LET w1 == Call(w, "createIssueComment", number, text, TRUE)
    IN  IF LastOk(w1)
        THEN [w1 EXCEPT !.issues[number].comments = Append(@,
                [author |-> Bot, body |-> text, created |-> [t |-> now, loc |-> UTC]])]
        ELSE w1

\* githubClient.removeIssueLabel: the platform refuses to remove a label that
\* is not on the issue.
removeIssueLabel(w, number, name) ==
    LET w1 == Call(w, "removeIssueLabel", number, name, name \in w.issues[number].labels)
    IN  IF LastOk(w1)
        THEN [w1 EXCEPT !.issues[number].labels = @ \ {name}]
        ELSE w1

\* githubClient.addIssueLabel
addIssueLabel(w, number, name) ==
    LET w1 == Call(w, "addIssueLabel", number, name, TRUE)
    IN  IF LastOk(w1)
        THEN [w1 EXCEPT !.issues[number].labels = @ \cup {name}]
        ELSE w1

----------------------------------------------------------------------------
(* LabelsInRepo. *)

DigitVal ==
    [c \in {"0", "1", "2", "3", "4", "5", "6", "7", "8", "9"} |->
        CASE c = "0" -> 0 [] c = "1" -> 1 [] c = "2" -> 2 [] c = "3" -> 3
          [] c = "4" -> 4 [] c = "5" -> 5 [] c = "6" -> 6 [] c = "7" -> 7
          [] c = "8" -> 8 [] c = "9" -> 9]

RECURSIVE DigitsValue(_)
DigitsValue(s) ==
    IF s = <<>> THEN 0
    ELSE 10 * DigitsValue(UpTo(s, Len(s) - 1)) + DigitVal[s[Len(s)]]

\* strconv.Atoi: an optional sign, then one or more decimal digits.
Atoi(s) ==
    LET signed == s # <<>> /\ Head(s) \in {"+", "-"}
        digits == IF signed THEN Tail(s) ELSE s
        ok == digits # <<>> /\ \A i \in 1..Len(digits) : digits[i] \in DOMAIN DigitVal
    IN  [ok |-> ok,
         val |-> IF ~ok THEN 0
                 ELSE IF signed /\ Head(s) = "-" THEN -DigitsValue(digits)
                 ELSE DigitsValue(digits)]

prefix == Deadline \o <<" ", "<", " ">>

\* The loop of LabelsInRepo: the names with the prefix whose rest is a number.
RECURSIVE parseLabels(_)
parseLabels(names) ==
    IF names = <<>> THEN <<>>
    ELSE LET label == Head(names)
             days == Atoi(TrimPrefix(label, prefix))
         IN  (IF HasPrefix(label, prefix) /\ days.ok
              THEN <<[Name |-> label, Days |-> days.val]>>
              ELSE <<>>) \o parseLabels(Tail(names))

\* sort.Slice by Days: for the short lists of a repository an insertion sort,
\* which moves an element left while it is smaller than the one before it.
RECURSIVE insertByDays(_, _)
insertByDays(list, l) ==
    IF list # <<>> /\ l.Days < list[Len(list)].Days
    THEN Append(insertByDays(UpTo(list, Len(list) - 1), l), list[Len(list)])
    ELSE Append(list, l)

RECURSIVE sortByDays(_)
sortByDays(list) ==
    IF list = <<>> THEN <<>>
    ELSE insertByDays(sortByDays(UpTo(list, Len(list) - 1)), list[Len(list)])

LabelsInRepo(w) ==
    LET w1 == Call(w, "repoLabels", 0, <<>>, TRUE)
    IN  IF ~LastOk(w1)
        THEN [w |-> w1, labels |-> <<>>, err |->
                Wrap(Wrap(ApiError, Msg("could not list labels", 0)),
                     Msg("could not list labels", 0))]
        ELSE LET list == sortByDays(parseLabels(repoLabels))
             IN  [w |-> [w1 EXCEPT !.labels = list], labels |-> list, err |-> Nil]

----------------------------------------------------------------------------
(* checkReminders. *)

\* The days already reminded: the civil day of every comment of the bot, taken
\* in the location of its timestamp, as midnight UTC.
reminded(issue) ==
    {DateUTC(CivilDay(issue.comments[i].created)) :
        i \in {j \in 1..Len(issue.comments) : issue.comments[j].author = Bot}}

\* reminder.Day() != now.Day() || reminder.Month() != now.Month() || ...
sameDay(reminder) == CivilDay(reminder) = CivilDay(Now)

done(issue, reminder) == \E r \in reminded(issue) : Equal(r, reminder)

\* fmt.Sprintf("hi @%s, it's reminder day!", author)
reminderText(author) ==
    <<"h", "i", " ", "@", author, ",", " ", "i", "t", "'", "s", " ">>
        \o Reminder \o <<" ", "d", "a", "y", "!">>

\* The comments check(author, body) posts when no call fails: one for each
\* reminder of the body that is due and not done.
RECURSIVE dueTexts(_, _, _)
dueTexts(issue, author, reminders) ==
    IF reminders = <<>> THEN <<>>
    ELSE (IF sameDay(Head(reminders)) /\ ~done(issue, Head(reminders))
          THEN <<reminderText(author)>>
          ELSE <<>>) \o dueTexts(issue, author, Tail(reminders))

\* check addressing the author of the issue, whoever wrote the body.
checkNamingIssueAuthor(issue, author, body) ==
    dueTexts(issue, issue.author, findTimes(Reminder, <<body>>))

check(issue, author, body) == dueTexts(issue, author, findTimes(Reminder, <<body>>))

RECURSIVE checkComments(_, _)
checkComments(issue, k) ==
    IF k > Len(issue.comments) THEN <<>>
    ELSE check(issue, issue.comments[k].author, issue.comments[k].body)
            \o checkComments(issue, k + 1)

\* Posts the texts in order and returns at the first call that fails.
RECURSIVE postAll(_, _, _)
postAll(w, number, texts) ==
    IF texts = <<>> THEN [w |-> w, err |-> Nil]
    ELSE LET w1 == createIssueComment(w, number, Head(texts))
         IN  IF ~LastOk(w1)
             THEN [w |-> w1, err |-> Wrap(ApiError, MsgAt("could not comment on", Owner, Repo, number))]
             ELSE postAll(w1, number, Tail(texts))

checkReminders(w, number, issue) ==
    postAll(w, number, check(issue, issue.author, issue.body) \o checkComments(issue, 1))

----------------------------------------------------------------------------
(* checkDeadlines. *)

\* int(days) rounding down instead of toward zero.
intDaysFloor(hours) == hours \div HoursPerDay

\* int(days) for days == hours / 24: the conversion truncates toward zero.
intDays(hours) ==
    IF hours >= 0 THEN hours \div HoursPerDay ELSE -((-hours) \div HoursPerDay)

\* days >= 0 in place of days > -1.
notPastStrict(hours) == hours >= 0

\* days > -1 for days == hours / 24.
notPast(hours) == hours > -HoursPerDay

\* labelIdx with labels[labelIdx].Days >= int(days) in place of >.
labelIndexGe(hours, labels) ==
    IF notPast(hours)
    THEN LET fit == {i \in 0..(Len(labels) - 1) : labels[i + 1].Days >= intDays(hours)}
         IN  IF fit = {} THEN Len(labels)
             ELSE CHOOSE i \in fit : \A j \in fit : i <= j
    ELSE -1

\* labelIdx, counted from 0: -1 for a deadline in the past, len(labels) when
\* no label is large enough.
labelIndex(hours, labels) ==
    IF notPast(hours)
    THEN LET fit == {i \in 0..(Len(labels) - 1) : labels[i + 1].Days > intDays(hours)}
         IN  IF fit = {} THEN Len(labels)
             ELSE CHOOSE i \in fit : \A j \in fit : i <= j
    ELSE -1

\* The loop of removals: every label but the one at labelIdx; a failing
\* removal is ignored.
\* The removals given up at the first one that fails.
RECURSIVE removeOthersUntilError(_, _, _, _, _)
removeOthersUntilError(w, number, labels, labelIdx, i) ==
    IF i >= Len(labels) THEN w
    ELSE IF i = labelIdx THEN removeOthersUntilError(w, number, labels, labelIdx, i + 1)
    ELSE LET w1 == removeIssueLabel(w, number, labels[i + 1].Name)
         IN  IF LastOk(w1) THEN removeOthersUntilError(w1, number, labels, labelIdx, i + 1)
             ELSE w1

RECURSIVE removeOthers(_, _, _, _, _)
removeOthers(w, number, labels, labelIdx, i) ==
    IF i >= Len(labels) THEN w
    ELSE removeOthers(
            IF i = labelIdx THEN w ELSE removeIssueLabel(w, number, labels[i + 1].Name),
            number, labels, labelIdx, i + 1)

\* checkDeadlines adding the selected label before it removes the others.
checkDeadlinesAddFirst(w, number, deadline, labels) ==
    LET hours == deadline.t - now
        labelIdx == labelIndex(hours, labels)
        kept == labelIdx >= 0 /\ labelIdx < Len(labels)
        w0 == [w EXCEPT !.used = Append(@,
                [number |-> number, deadline |-> deadline, hours |-> hours,
                 labels |-> labels, labelIdx |-> labelIdx])]
        w1 == IF kept THEN addIssueLabel(w0, number, labels[labelIdx + 1].Name) ELSE w0
        w2 == removeOthers(w1, number, labels, labelIdx, 0)
    IN  [w |-> w2,
         err |-> IF kept
                 THEN Wrap(IF LastOk(w1) THEN Nil ELSE ApiError, Msg("could not apply label", 0))
                 ELSE Nil]

checkDeadlines(w, number, deadline, labels) ==
    LET hours == deadline.t - now
        labelIdx == labelIndex(hours, labels)
        w0 == [w EXCEPT !.used = Append(@,
                [number |-> number, deadline |-> deadline, hours |-> hours,
                 labels |-> labels, labelIdx |-> labelIdx])]
        w1 == removeOthers(w0, number, labels, labelIdx, 0)
    IN  IF labelIdx >= Len(labels) \/ labelIdx < 0
        THEN [w |-> w1, err |-> Nil]
        ELSE LET w2 == addIssueLabel(w1, number, labels[labelIdx + 1].Name)
             IN  [w |-> w2,
                  err |-> Wrap(IF LastOk(w2) THEN Nil ELSE ApiError,
                               Msg("could not apply label", 0))]

----------------------------------------------------------------------------
(* updateIssue. *)

\* [issue.body, comment 0's body, comment 1's body, ...]
bodiesOf(issue) == <<issue.body>> \o [i \in 1..Len(issue.comments) |-> issue.comments[i].body]

\* updateIssue without the test of the issue's state.
updateIssueAnyState(w, number, labels) ==
    LET w1 == Call(w, "issue", number, <<>>, TRUE)
        issue == w.issues[number]
    IN  IF ~LastOk(w1)
        THEN [w |-> w1, err |-> Wrap(ApiError, MsgAt("could not fetch issue", Owner, Repo, number))]
        ELSE LET r == checkReminders(w1, number, issue)
                 deadlines == findTimes(Deadline, bodiesOf(issue))
             IN  IF r.err # Nil THEN r
                 ELSE IF deadlines = <<>> THEN [w |-> r.w, err |-> Nil]
                 ELSE checkDeadlines(r.w, number, deadlines[Len(deadlines)], labels)

\* updateIssue going on to checkDeadlines, with the zero time, when no
\* deadline is mentioned.
updateIssueZeroDeadline(w, number, labels) ==
    LET w1 == Call(w, "issue", number, <<>>, TRUE)
        issue == w.issues[number]
    IN  IF ~LastOk(w1)
        THEN [w |-> w1, err |-> Wrap(ApiError, MsgAt("could not fetch issue", Owner, Repo, number))]
        ELSE IF issue.state # "open" THEN [w |-> w1, err |-> Nil]
        ELSE LET r == checkReminders(w1, number, issue)
                 deadlines == findTimes(Deadline, bodiesOf(issue))
             IN  IF r.err # Nil THEN r
                 ELSE checkDeadlines(r.w, number,
                        IF deadlines = <<>> THEN ZeroTime ELSE deadlines[Len(deadlines)],
                        labels)

\* updateIssue going on to the deadline whatever checkReminders returned.
updateIssueDespiteReminderError(w, number, labels) ==
    LET w1 == Call(w, "issue", number, <<>>, TRUE)
        issue == w.issues[number]
    IN  IF ~LastOk(w1)
        THEN [w |-> w1, err |-> Wrap(ApiError, MsgAt("could not fetch issue", Owner, Repo, number))]
        ELSE IF issue.state # "open" THEN [w |-> w1, err |-> Nil]
        ELSE LET r == checkReminders(w1, number, issue)
                 deadlines == findTimes(Deadline, bodiesOf(issue))
             IN  IF deadlines = <<>> THEN [w |-> r.w, err |-> Nil]
                 ELSE checkDeadlines(r.w, number, deadlines[Len(deadlines)], labels)

updateIssue(w, number, labels) ==
    LET w1 == Call(w, "issue", number, <<>>, TRUE)
        issue == w.issues[number]
    IN  IF ~LastOk(w1)
        THEN [w |-> w1, err |-> Wrap(ApiError, MsgAt("could not fetch issue", Owner, Repo, number))]
        ELSE IF issue.state # "open" THEN [w |-> w1, err |-> Nil]
        ELSE LET r == checkReminders(w1, number, issue)
                 deadlines == findTimes(Deadline, bodiesOf(issue))
             IN  IF r.err # Nil THEN r
                 ELSE IF deadlines = <<>> THEN [w |-> r.w, err |-> Nil]
                 ELSE checkDeadlines(r.w, number, deadlines[Len(deadlines)], labels)

----------------------------------------------------------------------------
(* UpdateIssue and UpdateRepo, run from a world with an empty log. *)

World(fail) ==
    [issues |-> issues, calls |-> <<>>, fail |-> fail, used |-> <<>>, labels |-> <<>>]

runUpdateIssue(number, fail) ==
    LET l == LabelsInRepo(World(fail))
    IN  IF l.err # Nil THEN [w |-> l.w, err |-> l.err]
        ELSE updateIssue(l.w, number, l.labels)

\* githubClient.issues: the numbers of the open issues.
openNumbers(w) ==
    SelectSeq([i \in 1..NumIssues |-> i], LAMBDA i : w.issues[i].state = "open")

\* The loop of UpdateRepo over the issue numbers: it returns at the first
\* issue whose update fails.
RECURSIVE updateIssues(_, _, _)
updateIssues(w, numbers, labels) ==
    IF numbers = <<>> THEN [w |-> w, err |-> Nil]
    ELSE LET r == updateIssue(w, Head(numbers), labels)
         IN  IF r.err # Nil
             THEN [w |-> r.w, err |-> Wrap(r.err, Msg("could not handle issue", Head(numbers)))]
             ELSE updateIssues(r.w, Tail(numbers), labels)

\* UpdateRepo without the return on an empty label set.
runUpdateRepoEmptySetToo(fail) ==
    LET l == LabelsInRepo(World(fail))
        w1 == Call(l.w, "issues", 0, <<>>, TRUE)
    IN  IF l.err # Nil THEN [w |-> l.w, err |-> l.err]
        ELSE IF ~LastOk(w1)
        THEN [w |-> w1, err |->
                Wrap(Wrap(ApiError, Msg("could not list issues", 0)),
                     Msg("could not list issues", 0))]
        ELSE updateIssues(w1, openNumbers(w1), l.labels)

runUpdateRepo(fail) ==
    LET l == LabelsInRepo(World(fail))
        w1 == Call(l.w, "issues", 0, <<>>, TRUE)
    IN  IF l.err # Nil THEN [w |-> l.w, err |-> l.err]
        ELSE IF Len(l.labels) = 0 THEN [w |-> l.w, err |-> Nil]
        ELSE IF ~LastOk(w1)
        THEN [w |-> w1, err |->
                Wrap(Wrap(ApiError, Msg("could not list issues", 0)),
                     Msg("could not list issues", 0))]
        ELSE updateIssues(w1, openNumbers(w1), l.labels)

----------------------------------------------------------------------------
(* The inputs: texts, issues and label lists. *)

Nope == <<"n", "o", "p", "e">>

\* "reminder: <date>" and a line break
Rem(date) == Reminder \o <<":", " ", date, "\n">>

\* "deadline <date>"
Dl(date) == Deadline \o <<" ", date>>

At(hour) == [t |-> hour, loc |-> UTC]

Comment(author, body, hour) == [author |-> author, body |-> body, created |-> At(hour)]

Issue(author, body, state, comments) ==
    [author |-> author, body |-> body, state |-> state, comments |-> comments,
     labels |-> {}]

FirstIssues ==
    { Issue("alice", Rem("D1"), "open", <<>>),
      Issue(Bot, Nope, "open", <<Comment("francesc", Rem("D1"), -66)>>),
      Issue("francesc", Nope, "open",
            <<Comment("francesc", Rem("D1"), -66),
              Comment(Bot, reminderText("francesc"), 12)>>),
      Issue("alice", Rem("D1") \o Rem("D1"), "open", <<>>),
      Issue("alice", Rem("D1"), "open",
            <<Comment("francesc", <<"R">> \o Tail(Reminder) \o <<" ", "S1">>, -66)>>),
      Issue("alice", Dl("D2") \o <<"\n">> \o Dl("D1"), "open", <<>>),
      Issue("alice", Dl("D1"), "open", <<Comment("francesc", Dl("M2"), -66)>>),
      Issue("alice", Rem("D1") \o Dl("D2"), "open", <<>>),
      Issue("alice", Reminder \o <<" ", "s", "o", "o", "n", "\n">> \o Rem("D2"), "open", <<>>),
      Issue("alice", Rem("D1") \o Dl("D2"), "closed", <<>>) }

\* The issues that may carry every threshold label of the repository at the
\* start.
LabelledIssues ==
    { Issue("alice", Rem("D1"), "open", <<>>),
      Issue("alice", Rem("D1") \o Dl("D2"), "open", <<>>) }

OtherIssues ==
    { Issue("francesc", Nope, "open", <<>>) }

LabelName(atoms) == prefix \o atoms

LabelLists ==
    { << <<"b", "u", "g">>, LabelName(<<"2">>), LabelName(<<"3">>), LabelName(<<"1">>) >>,
      << LabelName(<<"0">>), LabelName(<<"x">>), LabelName(<<"-", "3">>) >>,
      << >> }

ZoneOffsets == {-6, 0, 13}

----------------------------------------------------------------------------
(* The state machine. *)

\* The history before any pass.
NoPass(at, snap) ==
    [op |-> "none", number |-> 0, at |-> at, snap |-> snap,
     calls |-> <<>>, err |-> Nil, used |-> <<>>, labels |-> <<>>]

\* The first issue at the start: without labels, or with every threshold
\* label of the repository on it.
StartIssues(names) ==
    LET threshold == {parseLabels(names)[i].Name : i \in 1..Len(parseLabels(names))}
    IN  FirstIssues \cup
            {[i EXCEPT !.labels = threshold] : i \in {j \in LabelledIssues : threshold # {}}}

Init ==
    /\ tz \in ZoneOffsets
    /\ now = StartHour
    /\ repoLabels \in LabelLists
    /\ issues \in {f \in [1..NumIssues -> StartIssues(repoLabels) \cup OtherIssues] :
                    /\ f[1] \in StartIssues(repoLabels)
                    /\ \A i \in 2..NumIssues : f[i] \in OtherIssues}
    /\ pass = NoPass(now, issues)
    /\ found = [word |-> Reminder, text |-> <<>>, times |-> <<>>, applied |-> FALSE]

\* The sets of log positions that may fail in a pass whose log, when no call
\* fails, has n entries.
FailSets(n) == {F \in SUBSET (1..n) : Cardinality(F) <= MaxFailures}

Bounded(w) == \A i \in 1..NumIssues : Len(w.issues[i].comments) <= MaxComments

Record(op, number, r) ==
    /\ Bounded(r.w)
    /\ issues' = r.w.issues
    /\ pass' = [op |-> op, number |-> number, at |-> now, snap |-> issues,
                calls |-> r.w.calls, err |-> r.err, used |-> r.w.used,
                labels |-> r.w.labels]
    /\ UNCHANGED <<tz, now, repoLabels, found>>

UpdateIssue(number) ==
    \E fail \in FailSets(Len(runUpdateIssue(number, {}).w.calls)) :
        LET r == runUpdateIssue(number, fail)
        IN  Record("UpdateIssue", number, r)

UpdateRepo ==
    \E fail \in FailSets(Len(runUpdateRepo({}).w.calls)) :
        LET r == runUpdateRepo(fail)
        IN  Record("UpdateRepo", 0, r)

Tick ==
    /\ now + ClockStep <= MaxHour
    /\ now' = now + ClockStep
    /\ UNCHANGED <<tz, repoLabels, issues, pass, found>>

Next ==
    \/ \E number \in 1..NumIssues : UpdateIssue(number)
    \/ UpdateRepo
    \/ Tick

Spec == Init /\ [][Next]_vars

----------------------------------------------------------------------------
(* findTimes alone: a text is drawn, findTimes("reminder", text) is run.   *)

\* What the texts are put together from.
Pieces ==
    { Reminder, <<"R">> \o Tail(Reminder), Tail(Reminder),
      <<" ">>, <<":">>, <<"\n">>, <<"D1">>, <<"x">> }

RECURSIVE TextsOf(_)
TextsOf(n) ==
    IF n = 0 THEN {<<>>}
    ELSE LET shorter == TextsOf(n - 1)
         IN  shorter \cup {t \o p : t \in shorter, p \in Pieces}

Texts == TextsOf(MaxPieces)

InitFind ==
    /\ tz = UTC
    /\ now = StartHour
    /\ repoLabels = <<>>
    /\ issues = [i \in 1..NumIssues |-> Issue("francesc", Nope, "open", <<>>)]
    /\ pass = NoPass(now, issues)
    /\ found \in {[word |-> Reminder, text |-> t, times |-> <<>>, applied |-> FALSE] :
                    t \in Texts}

ApplyFindTimes ==
    /\ ~found.applied
    /\ found' = [found EXCEPT !.times = findTimes(found.word, <<found.text>>),
                              !.applied = TRUE]
    /\ UNCHANGED <<tz, now, repoLabels, issues, pass>>

NextFind == ApplyFindTimes

SpecFind == InitFind /\ [][NextFind]_vars

----------------------------------------------------------------------------
(* What the claims speak of, read off the last pass: pass.snap is the      *)
(* platform the pass ran on, pass.at its instant, pass.calls its log.      *)

\* The calls of one kind the pass made for one issue, in order.
CallsOn(p, op, number) ==
    SelectSeq(p.calls, LAMBDA c : c.op = op /\ c.number = number)

Args(calls) == {calls[i].arg : i \in 1..Len(calls)}

\* The pass fetched the issue.
Fetched(p, number) ==
    \E i \in 1..Len(p.calls) :
        p.calls[i].op = "issue" /\ p.calls[i].number = number /\ p.calls[i].ok

\* The calendar day of the pass in the process's local zone and in UTC.
LocalDay(p) == (p.at + tz) \div HoursPerDay
UtcDay(p) == p.at \div HoursPerDay

\* The bodies of an issue with their authors: the issue's own, then each comment's.
Bodies(issue) ==
    <<[author |-> issue.author, body |-> issue.body]>>
        \o [i \in 1..Len(issue.comments) |->
                [author |-> issue.comments[i].author, body |-> issue.comments[i].body]]

\* The mentions of a keyword in the bodies from the k-th on: the day of each,
\* the author of its body and the body's position (1: the issue's own body).
RECURSIVE MentionsFrom(_, _, _)
MentionsFrom(word, issue, k) ==
    IF k > Len(Bodies(issue)) THEN <<>>
    ELSE LET b == Bodies(issue)[k]
             ts == scanBody(word, ToLower(b.body))
         IN  [i \in 1..Len(ts) |-> [day |-> CivilDay(ts[i]), author |-> b.author, body |-> k]]
                \o MentionsFrom(word, issue, k + 1)

Mentions(word, issue) == MentionsFrom(word, issue, 1)

\* The positions (as bodies: comment i is body i + 1) of the bot's comments.
BotBodies(issue) == {i + 1 : i \in {j \in 1..Len(issue.comments) : issue.comments[j].author = Bot}}

OpenAndFetched(p, number) == Fetched(p, number) /\ p.snap[number].state = "open"

----------------------------------------------------------------------------
(* C1: once a pass has posted a reminder on an issue and the platform has  *)
(* appended it as a comment of the bot created at the instant of the pass, *)
(* the next pass over that issue, with no other comment added and the      *)
(* clock where it was, calls createIssueComment zero times.                *)

PostedOn(p, number) ==
    \E i \in 1..Len(p.calls) :
        /\ p.calls[i].op = "createIssueComment"
        /\ p.calls[i].number = number
        /\ p.calls[i].ok

C1_NextPassPostsNothing ==
    [][\A number \in 1..NumIssues :
        (PostedOn(pass, number) /\ pass.at = now /\ now' = now /\ Fetched(pass', number))
            => Len(CallsOn(pass', "createIssueComment", number)) = 0]_vars

----------------------------------------------------------------------------
(* C2: UpdateIssue on an open issue whose only reminder mention, in its    *)
(* body or in one comment, is today's date (the local date of the pass, as *)
(* time.Now().Format renders it) and which has no comment of the bot calls *)
(* createIssueComment exactly once, with a text that names the author of   *)
(* the body holding the mention.                                           *)

OnlyMentionIsToday(p, number) ==
    LET ms == Mentions(Reminder, p.snap[number])
    IN  /\ p.op = "UpdateIssue"
        /\ p.number = number
        /\ OpenAndFetched(p, number)
        /\ BotBodies(p.snap[number]) = {}
        /\ Len(ms) = 1
        /\ ms[1].day = LocalDay(p)

\* The text addresses the login: "hi @<login>, ...".
Names(text, login) == Len(text) >= 5 /\ text[4] = "@" /\ text[5] = login

C2_OneCommentNamingTheAuthor ==
    \A number \in 1..NumIssues :
        OnlyMentionIsToday(pass, number) =>
            LET posts == CallsOn(pass, "createIssueComment", number)
            IN  /\ Len(posts) = 1
                /\ Names(posts[1].arg, Mentions(Reminder, pass.snap[number])[1].author)

C2_Witness ==
    \E number \in 1..NumIssues :
        /\ OnlyMentionIsToday(pass, number)
        /\ Mentions(Reminder, pass.snap[number])[1].body > 1
        /\ Mentions(Reminder, pass.snap[number])[1].author # pass.snap[number].author
        /\ PostedOn(pass, number)

----------------------------------------------------------------------------
(* C3: a pass creates no comment on an issue when every reminder dated     *)
(* today is followed, in the issue's comments, by a comment of the bot.    *)

RemindedLater(issue, m) == \E b \in BotBodies(issue) : b > m.body

C3_NoSecondReminder ==
    \A number \in 1..NumIssues :
        LET ms == Mentions(Reminder, pass.snap[number])
            today == {i \in 1..Len(ms) : ms[i].day = LocalDay(pass)}
        IN  (/\ OpenAndFetched(pass, number)
             /\ today # {}
             /\ \A i \in today : RemindedLater(pass.snap[number], ms[i]))
                => Len(CallsOn(pass, "createIssueComment", number)) = 0

----------------------------------------------------------------------------
(* C4: within one pass a reminder date causes at most one                  *)
(* createIssueComment call on an issue, however often it is mentioned.     *)
(* Every comment of a pass is for the one date that is due, so the calls   *)
(* of the pass on the issue are the calls for that date.                   *)

C4_AtMostOneCommentPerDate ==
    \A number \in 1..NumIssues :
        Len(CallsOn(pass, "createIssueComment", number)) <= 1

----------------------------------------------------------------------------
(* C5: a reminder is treated as due exactly when its date is the UTC date  *)
(* of the pass: on an open issue with no comment of the bot, a pass in     *)
(* which no call fails posts one comment for each mention of the UTC date  *)
(* of the pass and none for any other date.                                *)

NoCallFailed(p) == \A i \in 1..Len(p.calls) : p.calls[i].ok \/ p.calls[i].op = "removeIssueLabel"

C5_DueOnTheUtcDay ==
    \A number \in 1..NumIssues :
        LET ms == Mentions(Reminder, pass.snap[number])
        IN  (/\ OpenAndFetched(pass, number)
             /\ BotBodies(pass.snap[number]) = {}
             /\ NoCallFailed(pass))
                => Len(CallsOn(pass, "createIssueComment", number))
                     = Cardinality({i \in 1..Len(ms) : ms[i].day = UtcDay(pass)})

----------------------------------------------------------------------------
(* What checkDeadlines was handed (an entry of pass.used) and did. *)

\* int(d) for d == hours / 24, truncating toward zero.
Truncated(hours) ==
    IF hours >= 0 THEN hours \div HoursPerDay ELSE -((-hours) \div HoursPerDay)

SortedByDays(labels) ==
    \A i, j \in 1..Len(labels) : i < j => labels[i].Days <= labels[j].Days

\* The labels whose ceiling exceeds int(d), and those whose ceiling exceeds d.
Fit(u) == {i \in 1..Len(u.labels) : u.labels[i].Days > Truncated(u.hours)}
Exceeding(u) == {i \in 1..Len(u.labels) : u.labels[i].Days * HoursPerDay > u.hours}

Adds(u) == CallsOn(pass, "addIssueLabel", u.number)
Removes(u) == CallsOn(pass, "removeIssueLabel", u.number)

\* The names of the labels of the set, in order, but the k-th (k = 0: all).
NamesBut(labels, k) ==
    LET keep == SelectSeq([i \in 1..Len(labels) |-> i], LAMBDA i : i # k)
    IN  [i \in 1..Len(keep) |-> labels[keep[i]].Name]

RemovedNames(u) == [i \in 1..Len(Removes(u)) |-> Removes(u)[i].arg]

----------------------------------------------------------------------------
(* C6: the deadline handed to checkDeadlines is the last parsed "deadline" *)
(* mention in the order issue body, comment 0, comment 1, ..., and within  *)
(* a body in order of occurrence, whatever the dates' order; and it is     *)
(* handed over whenever the pass reaches the deadlines and one exists.     *)

C6_LastMentionWins ==
    /\ \A i \in 1..Len(pass.used) :
          LET ms == Mentions(Deadline, pass.snap[pass.used[i].number])
          IN  /\ ms # <<>>
              /\ CivilDay(pass.used[i].deadline) = ms[Len(ms)].day
    /\ \A number \in 1..NumIssues :
          (/\ OpenAndFetched(pass, number)
           /\ pass.err = Nil
           /\ Mentions(Deadline, pass.snap[number]) # <<>>)
              => \E i \in 1..Len(pass.used) : pass.used[i].number = number

C6_Witness ==
    \E i \in 1..Len(pass.used) :
        LET ms == Mentions(Deadline, pass.snap[pass.used[i].number])
        IN  /\ Len(ms) = 2
            /\ ms[2].day < ms[1].day
            /\ CivilDay(pass.used[i].deadline) = ms[2].day

----------------------------------------------------------------------------
(* C7: for a label set sorted by days and d > -1 with some label of        *)
(* days > int(d), checkDeadlines adds exactly one label, the first with    *)
(* days > int(d), and issues one remove for every other label of the set   *)
(* and no other; a label whose ceiling d equals exactly is not the one     *)
(* kept, a larger one is.                                                  *)

----------------------------------------------------------------------------
(* C8: when d <= -1 checkDeadlines adds no label and issues a remove for   *)
(* every label of the set; when d > -1, the fractions between -1 and 0     *)
(* included, the deadline is not taken as past: a label is added exactly   *)
(* when some label has days > int(d).                                      *)

C8_PastDeadline ==
    \A n \in 1..Len(pass.used) :
        LET u == pass.used[n]
        IN  /\ u.hours <= -HoursPerDay =>
                  Adds(u) = <<>> /\ RemovedNames(u) = NamesBut(u.labels, 0)
            /\ u.hours > -HoursPerDay => (Len(Adds(u)) = 1 <=> Fit(u) # {})

C8_Witness ==
    \E n \in 1..Len(pass.used) :
        LET u == pass.used[n]
        IN  /\ u.hours <= -HoursPerDay
            /\ Len(u.labels) >= 2
            /\ \E i \in 1..Len(Removes(u)) : Removes(u)[i].ok

----------------------------------------------------------------------------
(* C9, as stated: when no label's ceiling exceeds the real-valued d,       *)
(* checkDeadlines adds no label and removes every label of the set; and    *)
(* whenever d > -1 and some label's ceiling exceeds the real-valued d, a   *)
(* ceiling of 0 with d between -1 and 0 included, a label is kept.         *)

----------------------------------------------------------------------------
(* C10: in a repository pass that has listed the issues, updateIssue is    *)
(* attempted (the issue is asked for) for every issue of the list, also    *)
(* after the update of an earlier one has failed.                          *)

Listed(p) ==
    \E i \in 1..Len(p.calls) : p.calls[i].op = "issues" /\ p.calls[i].ok

C10_LaterIssuesAttempted ==
    (pass.op = "UpdateRepo" /\ Listed(pass)) =>
        \A number \in 1..NumIssues :
            pass.snap[number].state = "open" =>
                \E i \in 1..Len(pass.calls) :
                    pass.calls[i].op = "issue" /\ pass.calls[i].number = number

----------------------------------------------------------------------------
(* C11: for an issue whose state is not "open", updateIssue calls none of  *)
(* createIssueComment, removeIssueLabel and addIssueLabel, leaves the      *)
(* issue as it was and returns no error, whatever reminder or deadline     *)
(* mentions the issue holds.                                               *)

Acts == {"createIssueComment", "removeIssueLabel", "addIssueLabel"}

\* The positions in the log of the pass of the calls of these kinds on the issue.
CallIdx(p, ops, number) ==
    {i \in 1..Len(p.calls) : p.calls[i].op \in ops /\ p.calls[i].number = number}

NotOpenAndFetched(p, number) == Fetched(p, number) /\ p.snap[number].state # "open"

C11_ClosedIssueUntouched ==
    \A number \in 1..NumIssues :
        NotOpenAndFetched(pass, number) =>
            /\ CallIdx(pass, Acts, number) = {}
            /\ issues[number] = pass.snap[number]
            /\ (pass.op = "UpdateIssue" /\ pass.number = number) => pass.err = Nil

C11_Witness ==
    \E number \in 1..NumIssues :
        /\ NotOpenAndFetched(pass, number)
        /\ pass.op = "UpdateIssue" /\ pass.number = number
        /\ pass.labels # <<>>
        /\ \E i \in 1..Len(Mentions(Reminder, pass.snap[number])) :
              Mentions(Reminder, pass.snap[number])[i].day = LocalDay(pass)
        /\ Mentions(Deadline, pass.snap[number]) # <<>>

----------------------------------------------------------------------------
(* C12: for an open issue with no parsed "deadline" mention in its body or *)
(* comments, updateIssue calls neither removeIssueLabel nor addIssueLabel  *)
(* and the labels on the issue stay as they were, while the reminders are  *)
(* evaluated: with no comment of the bot and no failing call, one comment  *)
(* is posted for each mention of the day of the pass.                      *)

LabelActs == {"removeIssueLabel", "addIssueLabel"}

NoDeadlineMention(p, number) ==
    OpenAndFetched(p, number) /\ Mentions(Deadline, p.snap[number]) = <<>>

C12_NoDeadlineNoLabelCall ==
    \A number \in 1..NumIssues :
        NoDeadlineMention(pass, number) =>
            LET ms == Mentions(Reminder, pass.snap[number])
            IN  /\ CallIdx(pass, LabelActs, number) = {}
                /\ issues[number].labels = pass.snap[number].labels
                /\ (BotBodies(pass.snap[number]) = {} /\ NoCallFailed(pass)) =>
                      Len(CallsOn(pass, "createIssueComment", number))
                        = Cardinality({i \in 1..Len(ms) : ms[i].day = LocalDay(pass)})

C12_Witness ==
    \E number \in 1..NumIssues :
        /\ NoDeadlineMention(pass, number)
        /\ pass.labels # <<>>
        /\ Cardinality(pass.snap[number].labels) >= 2
        /\ PostedOn(pass, number)

----------------------------------------------------------------------------
(* C13: every Label of the threshold set LabelsInRepo returns has          *)
(* days >= 0, a name such as "deadline < -3" not being admitted, and the   *)
(* set is sorted ascending by days.                                        *)

C13_DaysNonNegativeAndSorted ==
    /\ \A i \in 1..Len(pass.labels) : pass.labels[i].Days >= 0
    /\ SortedByDays(pass.labels)

----------------------------------------------------------------------------
(* C14: findTimes(keyword, text) returns, in order of occurrence, one date *)
(* for each non-overlapping occurrence of the keyword whose remainder of   *)
(* the same line, trimmed as parseDate trims it (whitespace, colons,       *)
(* whitespace), parses as a date, and nothing for any other occurrence; an *)
(* occurrence that does not parse does not keep later ones, on the same or *)
(* on later lines, from being found; a text without the keyword yields the *)
(* empty sequence.  The keyword is matched in the lower-cased text.        *)

\* The offsets (from 0) of the occurrences of the word in s from offset p on,
\* each found after the end of the one before.
RECURSIVE OccurrencesFrom(_, _, _)
OccurrencesFrom(word, s, p) ==
    LET at == {i \in p..(Len(s) - Len(word)) : HasAt(s, word, i)}
    IN  IF at = {} THEN <<>>
        ELSE LET i == CHOOSE x \in at : \A y \in at : x <= y
             IN  <<i>> \o OccurrencesFrom(word, s, i + Len(word))

\* The rest of the line of s from offset p on: up to the next line break.
RestOfLine(s, p) ==
    LET breaks == {j \in (p + 1)..Len(s) : s[j] = "\n"}
        last == IF breaks = {} THEN Len(s)
                ELSE (CHOOSE x \in breaks : \A y \in breaks : x <= y) - 1
    IN  SubSeq(s, p + 1, last)

\* What follows each occurrence on its line.
Remainders(word, text) ==
    LET s == ToLower(text)
        occ == OccurrencesFrom(word, s, 0)
    IN  [k \in 1..Len(occ) |-> RestOfLine(s, occ[k] + Len(word))]

DatesOf(word, text) ==
    LET ds == [k \in 1..Len(Remainders(word, text)) |-> parseDate(Remainders(word, text)[k])]
    IN  SelectSeq(ds, LAMBDA d : ~IsZero(d))

C14_OneDatePerParsedOccurrence ==
    found.applied =>
        /\ found.times = DatesOf(found.word, found.text)
        /\ Remainders(found.word, found.text) = <<>> => found.times = <<>>

\* Two occurrences on one line: the first does not parse, the second does.
C14_Witness ==
    LET rs == Remainders(found.word, found.text)
    IN  /\ found.applied
        /\ Len(rs) = 2
        /\ \A j \in 1..Len(found.text) : found.text[j] # "\n"
        /\ IsZero(parseDate(rs[1]))
        /\ ~IsZero(parseDate(rs[2]))
        /\ Len(found.times) = Len(rs) - 1

----------------------------------------------------------------------------
(* C15: a failing removeIssueLabel call never aborts checkDeadlines: a     *)
(* remove is issued for every label of the set but the selected one, the   *)
(* selected label is added, and the update of the issue returns an error   *)
(* exactly when addIssueLabel fails.                                       *)

\* The position in the set of the label checkDeadlines selects, 0 if none.
Selected(u) ==
    IF u.hours > -HoursPerDay /\ Fit(u) # {}
    THEN CHOOSE i \in Fit(u) : \A j \in Fit(u) : i <= j
    ELSE 0

\* The update of the issue returned an error to the pass.
UpdateFailed(p, number) ==
    IF p.op = "UpdateIssue" THEN p.number = number /\ p.err # Nil
    ELSE \E i \in 1..Len(p.err) : p.err[i] = Msg("could not handle issue", number)

C15_FailedRemovalGoesOn ==
    \A n \in 1..Len(pass.used) :
        LET u == pass.used[n]
        IN  /\ RemovedNames(u) = NamesBut(u.labels, Selected(u))
            /\ Selected(u) # 0 =>
                  Len(Adds(u)) = 1 /\ Adds(u)[1].arg = u.labels[Selected(u)].Name
            /\ UpdateFailed(pass, u.number) <=>
                  \E i \in 1..Len(Adds(u)) : ~Adds(u)[i].ok

\* A remove fails, a later remove and the add are issued, no error comes back.
C15_Witness ==
    \E n \in 1..Len(pass.used) :
        LET u == pass.used[n]
        IN  /\ \E i, j \in 1..Len(Removes(u)) : i < j /\ ~Removes(u)[i].ok
            /\ Len(Adds(u)) = 1 /\ Adds(u)[1].ok
            /\ ~UpdateFailed(pass, u.number)
            /\ pass.err = Nil

----------------------------------------------------------------------------
(* The labels on an issue in the course of a pass. *)

\* The labels on the issue after the first k calls of the pass.
RECURSIVE LabelsAfter(_, _, _)
LabelsAfter(p, number, k) ==
    IF k = 0 THEN p.snap[number].labels
    ELSE LET before == LabelsAfter(p, number, k - 1)
             c == p.calls[k]
         IN  IF c.number # number \/ ~c.ok THEN before
             ELSE IF c.op = "removeIssueLabel" THEN before \ {c.arg}
             ELSE IF c.op = "addIssueLabel" THEN before \cup {c.arg}
             ELSE before

\* How many of the labels are threshold labels.
Thresholds(labels) == Cardinality({l \in labels : HasPrefix(l, prefix)})

Larger(a, b) == IF a >= b THEN a ELSE b

\* In the pass on the issue: every comment before every label call, every
\* remove before the add, one add at most.
InOrder(p, number) ==
    /\ \A i \in CallIdx(p, {"createIssueComment"}, number) :
          \A j \in CallIdx(p, LabelActs, number) : i < j
    /\ \A i \in CallIdx(p, {"removeIssueLabel"}, number) :
          \A j \in CallIdx(p, {"addIssueLabel"}, number) : i < j
    /\ Cardinality(CallIdx(p, {"addIssueLabel"}, number)) <= 1

\* checkDeadlines ran for the issue and every remove it issued succeeded.
AllRemovalsSucceed(p, number) ==
    /\ \E n \in 1..Len(p.used) : p.used[n].number = number
    /\ \A i \in CallIdx(p, {"removeIssueLabel"}, number) : p.calls[i].ok

\* A remove of a label that is on the issue fails.
RemovalOfPresentFails(p, number) ==
    \E i \in CallIdx(p, {"removeIssueLabel"}, number) :
        ~p.calls[i].ok /\ p.calls[i].arg \in LabelsAfter(p, number, i - 1)

(* C16, as stated: within one updateIssue pass every createIssueComment    *)
(* call precedes every label call and every removeIssueLabel call precedes *)
(* the single addIssueLabel call; during the pass the number of threshold  *)
(* labels on the issue never exceeds the larger of its initial count and   *)
(* one, and it is at most one at the end when all removals succeed.        *)

----------------------------------------------------------------------------
(* C17: when createIssueComment fails while a reminder is posted,          *)
(* updateIssue returns an error that carries the owner, the repository and *)
(* the number of the issue, posts no further comment on the issue and      *)
(* calls neither removeIssueLabel nor addIssueLabel in the pass: the       *)
(* labels of the issue are as they were, also when a deadline is           *)
(* mentioned.                                                              *)

\* The positions of the failed createIssueComment calls on the issue.
FailedComments(p, number) ==
    {i \in CallIdx(p, {"createIssueComment"}, number) : ~p.calls[i].ok}

Carries(err, owner, repo, number) ==
    \E k \in 1..Len(err) :
        err[k].owner = owner /\ err[k].repo = repo /\ err[k].number = number

C17_FailedCommentStopsTheUpdate ==
    \A number \in 1..NumIssues :
        \A i \in FailedComments(pass, number) :
            /\ UpdateFailed(pass, number)
            /\ Carries(pass.err, Owner, Repo, number)
            /\ \A j \in CallIdx(pass, Acts, number) : j <= i
            /\ CallIdx(pass, LabelActs, number) = {}
            /\ issues[number].labels = pass.snap[number].labels

\* The comment fails on an issue that mentions a deadline and carries labels,
\* in a repository with threshold labels.
C17_Witness ==
    \E number \in 1..NumIssues :
        /\ FailedComments(pass, number) # {}
        /\ Mentions(Deadline, pass.snap[number]) # <<>>
        /\ pass.labels # <<>>
        /\ pass.snap[number].labels # {}

----------------------------------------------------------------------------
(* C18: UpdateRepo on a repository whose threshold label set is empty      *)
(* lists no issues, fetches no issue and acts on none, so it posts no      *)
(* reminder even on an open issue with a reminder due on the day of the    *)
(* pass; UpdateIssue on such an issue, with the same empty set, does post  *)
(* the reminder.                                                           *)

\* The pass read the labels of the repository and found no threshold label.
EmptyLabelSet(p) ==
    /\ p.calls # <<>>
    /\ p.calls[1].op = "repoLabels" /\ p.calls[1].ok
    /\ p.labels = <<>>

\* An open issue without a comment of the bot that mentions the day of the pass.
DueToday(p, issue) ==
    /\ issue.state = "open"
    /\ BotBodies(issue) = {}
    /\ \E i \in 1..Len(Mentions(Reminder, issue)) :
          Mentions(Reminder, issue)[i].day = LocalDay(p)

C18_EmptySetSkipsTheRepository ==
    /\ (pass.op = "UpdateRepo" /\ EmptyLabelSet(pass)) =>
          /\ Len(pass.calls) = 1
          /\ issues = pass.snap
          /\ pass.err = Nil
    /\ \A number \in 1..NumIssues :
          (/\ pass.op = "UpdateIssue" /\ pass.number = number
           /\ EmptyLabelSet(pass)
           /\ Fetched(pass, number)
           /\ DueToday(pass, pass.snap[number]))
              => CallIdx(pass, {"createIssueComment"}, number) # {}

C18_Witness ==
    /\ pass.op = "UpdateRepo"
    /\ EmptyLabelSet(pass)
    /\ \E number \in 1..NumIssues : DueToday(pass, pass.snap[number])
    /\ \A number \in 1..NumIssues : ~PostedOn(pass, number)

====
